---- MODULE Spec2Model ----
(***************************************************************************)
(* Model of the Excel -> Shopify product sync script.                      *)
(*                                                                         *)
(*   shopifyClient.js  (src/unnamed/part_002, lines 1-233)                 *)
(*       callShopifyGraphQL: the rate-limited request executor             *)
(*       fetchProductByHandle, setInventoryQuantities: the gateway         *)
(*   productSync.js    (src/unnamed/part_000)                              *)
(*       buildProductSetInput, syncInventoryForProduct,                    *)
(*       syncAllProductsFromExcel: the orchestrator                        *)
(*   index.js          (src/unnamed/part_001)  main                        *)
(*                                                                         *)
(* One action per stretch of code between two awaits.  The remote endpoint *)
(* is the environment: every reply to a request in flight is drawn from a  *)
(* small set of replies.  Durations are in milliseconds; a sleep is a      *)
(* state in which the duration handed to sleep() is recorded in waitMs.    *)
(***************************************************************************)
EXTENDS Integers, Sequences, FiniteSets, TLC

(***************************************************************************)
(* Program constants                                                       *)
(***************************************************************************)
MAX_RETRIES == 5
INITIAL_BACKOFF_MS == 1000
LOW_CREDITS_THRESHOLD == 50

(***************************************************************************)
(* Bounds of the model                                                     *)
(***************************************************************************)
\* longest retry-after header text the remote sends
MaxHeaderLen == 2
\* largest number of grouping keys (handles) of one workbook
MaxKeys == 2

Max(a, b) == IF a >= b THEN a ELSE b

(***************************************************************************)
(* JavaScript values.  A scalar is a record with its typeof and what       *)
(* Number(x) makes of it: nan when that is NaN, else the number v.         *)
(* NaN itself has typeof "number" and compares false with everything.      *)
(***************************************************************************)
Num(n) == [type |-> "number", nan |-> FALSE, v |-> n]
NaNValue == [type |-> "number", nan |-> TRUE, v |-> 0]
Undefined == [type |-> "undefined", nan |-> TRUE, v |-> 0]
\* a text that is not a number
Str == [type |-> "string", nan |-> TRUE, v |-> 0]
\* the empty string ''
EmptyString == [type |-> "string", nan |-> FALSE, v |-> 0]

typeof(x) == x.type

\* x < n for a JS number x (false for NaN)
NumLess(x, n) == ~x.nan /\ x.v < n
\* x > n for a JS number x (false for NaN)
NumGreater(x, n) == ~x.nan /\ x.v > n

(***************************************************************************)
(* The retry-after header: absent, or a text of at most MaxHeaderLen       *)
(* characters.  parseFloat reads the longest numeric prefix                *)
(* [sign] digits [. digits]  and yields NaN when there is none.  The       *)
(* parsed number is kept in thousandths, which is the unit of              *)
(* retrySeconds * 1000.                                                    *)
(***************************************************************************)
HeaderChars == {"-", "0", "3", ".", "x"}
Digits == {"0", "3"}
DigitValue(c) == IF c = "3" THEN 3 ELSE 0

RECURSIVE TextsOfLen(_)
TextsOfLen(n) ==
    IF n = 0 THEN {<<>>}
    ELSE {Append(t, c) : t \in TextsOfLen(n - 1), c \in HeaderChars}

HeaderTexts == UNION {TextsOfLen(n) : n \in 0..MaxHeaderLen}

NoHeader == [present |-> FALSE, text |-> <<>>]
Header(t) == [present |-> TRUE, text |-> t]
Headers == {NoHeader} \cup {Header(t) : t \in HeaderTexts}

\* number of consecutive digits of t starting at position i
RECURSIVE DigitRun(_, _)
DigitRun(t, i) ==
    IF i <= Len(t) /\ t[i] \in Digits THEN 1 + DigitRun(t, i + 1) ELSE 0

\* the decimal number written by the n digits of t starting at position i
RECURSIVE DigitsValue(_, _, _)
DigitsValue(t, i, n) ==
    IF n = 0 THEN 0
    ELSE 10 * DigitsValue(t, i, n - 1) + DigitValue(t[i + n - 1])

\* thousandths written by the first three of the n fraction digits at i
FractionMillis(t, i, n) ==
    (IF n >= 1 THEN 100 * DigitValue(t[i]) ELSE 0)
    + (IF n >= 2 THEN 10 * DigitValue(t[i + 1]) ELSE 0)
    + (IF n >= 3 THEN DigitValue(t[i + 2]) ELSE 0)

\* parseFloat(text) * 1000
parseFloat(t) ==
    LET neg == Len(t) >= 1 /\ t[1] = "-"
        s == IF neg THEN 2 ELSE 1
        ni == DigitRun(t, s)
        dot == s + ni <= Len(t) /\ t[s + ni] = "."
        nf == IF dot THEN DigitRun(t, s + ni + 1) ELSE 0
        mag == 1000 * DigitsValue(t, s, ni) + FractionMillis(t, s + ni + 1, nf)
    IN  IF ni + nf = 0 THEN NaNValue
        ELSE Num(IF neg THEN 0 - mag ELSE mag)

(***************************************************************************)
(* Replies of the remote endpoint.                                         *)
(*                                                                         *)
(* A successful transport response carries a body `data`:                  *)
(*   errors   data.errors is a non-empty list                              *)
(*   cost     data.extensions.cost and its throttleStatus                  *)
(*   product  data.data.productByHandle           (lookup, re-fetch)       *)
(*   payload  data.data.productSet / data.data.inventorySetQuantities      *)
(* A failed request raises an error: an HTTP status with the retry-after   *)
(* header of the response, or no response at all (network, timeout).       *)
(***************************************************************************)
NoCost == [present |-> FALSE, currentlyAvailable |-> Undefined,
           restoreRate |-> Undefined]
Cost(a, r) == [present |-> TRUE, currentlyAvailable |-> a, restoreRate |-> r]

Costs == {
    NoCost,
    Cost(Undefined, Undefined),
    Cost(Undefined, Num(10)),
    Cost(Str, Num(10)),
    Cost(NaNValue, Num(10)),
    Cost(Num(30), Undefined),
    Cost(Num(30), Str),
    Cost(Num(30), NaNValue),
    Cost(Num(30), Num(-1)),
    Cost(Num(30), Num(0)),
    Cost(Num(30), Num(3)),
    Cost(Num(30), Num(10)),
    Cost(Num(49), Num(7)),
    Cost(Num(50), Num(10)),
    Cost(Num(50), Num(0)),
    Cost(Num(120), Num(10)) }

\* a variant node of a product: id, sku, inventoryItem.id ("" is null)
Node(id, sku, item) == [id |-> id, sku |-> sku, inventoryItem |-> item]
NullProduct == [isNull |-> TRUE, id |-> "", nodes |-> <<>>]
Product(id, nodes) == [isNull |-> FALSE, id |-> id, nodes |-> nodes]
Products == {
    NullProduct,
    Product("P1", <<Node("V1", "S1", "I1")>>),
    Product("P1", <<Node("V1", "S1", "I1"), Node("V2", "S2", "I2")>>),
    Product("P2", <<Node("V3", "S1", ""), Node("V4", "", "I4")>>) }

\* productSet / inventorySetQuantities payload
NoPayload == [present |-> FALSE, userErrors |-> FALSE, product |-> FALSE]
Payload(ue, p) == [present |-> TRUE, userErrors |-> ue, product |-> p]
Payloads == {NoPayload} \cup {Payload(ue, p) : ue \in BOOLEAN, p \in BOOLEAN}

Data(e, c, p, pl) == [errors |-> e, cost |-> c, product |-> p, payload |-> pl]
NoData == Data(FALSE, NoCost, NullProduct, NoPayload)

\* the bodies the remote can send in reply to a request of operation op
Bodies(op) ==
    IF op \in {"fetchProductByHandle", "refetch"}
    THEN {Data(e, c, p, NoPayload) : e \in BOOLEAN, c \in Costs, p \in Products}
    ELSE IF op = "productSet"
    THEN {Data(e, c, NullProduct, pl) : e \in BOOLEAN, c \in Costs,
                                         pl \in Payloads}
    ELSE {Data(e, c, NullProduct, pl) : e \in BOOLEAN, c \in Costs,
              pl \in {NoPayload, Payload(FALSE, FALSE), Payload(TRUE, FALSE)}}

Err(k, st, h) == [kind |-> k, status |-> st, retryAfter |-> h]
NoErr == Err("none", 0, NoHeader)
\* the "Unexpected state in callShopifyGraphQL retry loop." error
UnexpectedStateError == Err("unexpected", 0, NoHeader)
RateLimitErrors == {Err("http", 429, h) : h \in Headers}
OtherFailures == {Err("http", 500, NoHeader), Err("http", 404, NoHeader),
                  Err("network", 0, NoHeader), Err("timeout", 0, NoHeader)}

(***************************************************************************)
(* The executor's pure steps                                               *)
(***************************************************************************)
NoThrottleInfo == [isNull |-> TRUE, currentlyAvailable |-> Undefined,
                   restoreRate |-> Undefined]

\* extractThrottleInfo(data)
extractThrottleInfo(data) ==
    IF ~data.cost.present THEN NoThrottleInfo
    ELSE [isNull |-> FALSE,
          currentlyAvailable |-> data.cost.currentlyAvailable,
          restoreRate |-> data.cost.restoreRate]

\* Math.ceil(deficit / restoreRate * 1000) for deficit >= 0, restoreRate > 0
CeilMillis(deficit, restoreRate) ==
    (deficit * 1000 + restoreRate - 1) \div restoreRate

NoSleep == [sleeps |-> FALSE, ms |-> 0]
Sleep(ms) == [sleeps |-> TRUE, ms |-> ms]

\* applyPreemptiveThrottleWait without the typeof guard of lines 57-62:
\* a missing or non-numeric currentlyAvailable counts as 0
applyPreemptiveThrottleWait_Coercing(throttleInfo) ==
    IF throttleInfo.isNull THEN NoSleep
    ELSE LET currentlyAvailable == throttleInfo.currentlyAvailable
             restoreRate == throttleInfo.restoreRate
             available == IF typeof(currentlyAvailable) = "number"
                             /\ ~currentlyAvailable.nan
                          THEN currentlyAvailable.v ELSE 0
         IN  IF available < LOW_CREDITS_THRESHOLD
                /\ typeof(restoreRate) = "number"
                /\ NumGreater(restoreRate, 0)
             THEN Sleep(CeilMillis(LOW_CREDITS_THRESHOLD * 2 - available,
                                   restoreRate.v))
             ELSE NoSleep

\* applyPreemptiveThrottleWait(throttleInfo): the sleep it performs, if any
applyPreemptiveThrottleWait(throttleInfo) ==
    IF throttleInfo.isNull THEN NoSleep
    ELSE LET currentlyAvailable == throttleInfo.currentlyAvailable
             restoreRate == throttleInfo.restoreRate
         IN  IF typeof(currentlyAvailable) # "number"
                \/ typeof(restoreRate) # "number"
             THEN NoSleep
             ELSE IF NumLess(currentlyAvailable, LOW_CREDITS_THRESHOLD)
             THEN LET desired == LOW_CREDITS_THRESHOLD * 2
                      deficit == Max(0, desired - currentlyAvailable.v)
                  IN  IF deficit > 0 /\ NumGreater(restoreRate, 0)
                      THEN Sleep(CeilMillis(deficit, restoreRate.v))
                      ELSE NoSleep
             ELSE NoSleep

\* the 429 wait with the suggestion taken as it is, without Math.max
RetryAfterMs_NoMax(backoff, retryAfterHeader) ==
    IF retryAfterHeader.present /\ retryAfterHeader.text # <<>>
    THEN LET retrySeconds == parseFloat(retryAfterHeader.text)
         IN  IF ~retrySeconds.nan THEN retrySeconds.v ELSE backoff
    ELSE backoff

\* the wait computed in the 429 branch from backoffMs and the header
RetryAfterMs(backoff, retryAfterHeader) ==
    IF retryAfterHeader.present /\ retryAfterHeader.text # <<>>
    THEN LET retrySeconds == parseFloat(retryAfterHeader.text)
         IN  IF ~retrySeconds.nan
             THEN Max(backoff, retrySeconds.v)
             ELSE backoff
    ELSE backoff

\* the retry bound tested one attempt early
RetriesExhausted_OffByOne(a) == a >= MAX_RETRIES
\* a backoff that grows by a constant instead of doubling
NextBackoff_Linear(b) == b + INITIAL_BACKOFF_MS
\* every HTTP error status taken for a rate-limit rejection
IsRateLimit_AnyHttp(err) == err.kind = "http"
\* data.errors never inspected
HasGraphQLErrors_Ignored(data) == FALSE

\* a loop that gives up one attempt before the catch block does
LoopGuard_Short(a) == a < MAX_RETRIES
\* while (attempt <= MAX_RETRIES)
LoopGuard(a) == a <= MAX_RETRIES
\* if (attempt > MAX_RETRIES) throw err
RetriesExhausted(a) == a > MAX_RETRIES
\* backoffMs *= 2
NextBackoff(b) == b * 2
\* status === 429
IsRateLimit(err) == err.kind = "http" /\ err.status = 429
\* data.errors && data.errors.length > 0
HasGraphQLErrors(data) == data.errors

\* history only: the envelope of data cannot be used for pacing
UnusableEnvelope(data) ==
    \/ ~data.cost.present
    \/ typeof(data.cost.currentlyAvailable) # "number"
    \/ typeof(data.cost.restoreRate) # "number"
    \/ data.cost.currentlyAvailable.nan
    \/ data.cost.restoreRate.nan
    \/ data.cost.restoreRate.v <= 0

(***************************************************************************)
(* The workbook: productsByHandle, one group of variant rows per handle,   *)
(* in the order of first appearance.                                       *)
(***************************************************************************)
Row(sku, title, qty) ==
    [VariantSKU |-> sku, VariantTitle |-> title,
     VariantInventoryQuantity |-> qty]

\* String(x || "").trim() on the cell texts of the model
Trim(s) ==
    CASE s = " S1 " -> "S1"
      [] s = " Red " -> "Red"
      [] s = "  " -> ""
      [] OTHER -> s

Handles == <<"shirt-1", "mug-2", "cap-3">>

RowsOf(i) ==
    CASE i = 1 -> <<Row("S1", "Red", Num(10)), Row("S2", " Red ", EmptyString),
                    Row("S2", "Blue", Str)>>
      [] i = 2 -> <<Row("S3", "", Undefined), Row("  ", "Blue", Num(4)),
                    Row("S1", "Blue", Undefined)>>
      [] OTHER -> <<Row(" S1 ", "Red", Num(0)), Row("S2", "Blue", Str),
                    Row("S2", "Red", Num(7))>>

Group(i) == [handle |-> Handles[((i - 1) % 3) + 1], rows |-> RowsOf(((i - 1) % 3) + 1)]
Workbook(n) == [i \in 1..n |-> Group(i)]
Workbooks == {Workbook(n) : n \in 1..MaxKeys}

(***************************************************************************)
(* buildProductSetInput and the quantity lines of syncInventoryForProduct  *)
(***************************************************************************)
SetMax(S) == CHOOSE x \in S : \A y \in S : y <= x

\* the index kept from an earlier product and only added to
ExistingVariant_StaleIndex(nodes, sku) ==
    LET kept == <<Node("V1", "S1", "I1"), Node("V2", "S2", "I2")>> \o nodes
        hits == {i \in 1..Len(kept) : kept[i].sku # "" /\ kept[i].sku = sku}
    IN  IF hits = {} THEN "" ELSE kept[SetMax(hits)].id

\* existingVariantsBySku.get(sku): a later node overwrites an earlier one
ExistingVariant(nodes, sku) ==
    LET hits == {i \in 1..Len(nodes) : nodes[i].sku # "" /\ nodes[i].sku = sku}
    IN  IF hits = {} THEN "" ELSE nodes[SetMax(hits)].id

\* the inventory item taken from the last variant, whatever its SKU
InventoryItemId_LastNode(nodes, sku) ==
    IF nodes = <<>> THEN "" ELSE nodes[Len(nodes)].inventoryItem

\* inventoryItemIdBySku.get(sku)
InventoryItemId(nodes, sku) ==
    LET hits == {i \in 1..Len(nodes) :
                    /\ nodes[i].sku # ""
                    /\ nodes[i].inventoryItem # ""
                    /\ nodes[i].sku = sku}
    IN  IF hits = {} THEN "" ELSE nodes[SetMax(hits)].inventoryItem

\* Array.from(new Set(titles)): first occurrences, in order
RECURSIVE FirstSeen(_)
FirstSeen(titles) ==
    IF titles = <<>> THEN <<>>
    ELSE LET init == SubSeq(titles, 1, Len(titles) - 1)
             last == titles[Len(titles)]
         IN  IF \E i \in 1..Len(init) : init[i] = last
             THEN FirstSeen(init)
             ELSE Append(FirstSeen(init), last)

\* the titles without the Set: every non-empty title, repeated or not
uniqueVariantTitles_NoDedupe(rows) ==
    SelectSeq([i \in 1..Len(rows) |-> Trim(rows[i].VariantTitle)],
              LAMBDA v : v # "")

uniqueVariantTitles(rows) ==
    FirstSeen(SelectSeq([i \in 1..Len(rows) |-> Trim(rows[i].VariantTitle)],
                        LAMBDA v : v # ""))

\* the variant of row i taking the id of the i-th existing variant
buildProductSetInput_ByPosition(handle, rows, existingProduct) ==
    LET nodes == IF existingProduct.isNull THEN <<>> ELSE existingProduct.nodes
    IN  [handle |-> handle,
         productOptions |-> uniqueVariantTitles(rows),
         variants |->
             [i \in 1..Len(rows) |->
                 [id |-> IF i <= Len(nodes) THEN nodes[i].id ELSE "",
                  sku |-> Trim(rows[i].VariantSKU),
                  optionValue |-> Trim(rows[i].VariantTitle)]]]

\* the part of ProductSetInput that depends on the rows and the lookup
buildProductSetInput(handle, rows, existingProduct) ==
    LET nodes == IF existingProduct.isNull THEN <<>> ELSE existingProduct.nodes
        variant(row) ==
            LET sku == Trim(row.VariantSKU)
                existing == IF sku # "" THEN ExistingVariant(nodes, sku) ELSE ""
            IN  [id |-> existing, sku |-> sku,
                 optionValue |-> Trim(row.VariantTitle)]
    IN  [handle |-> handle,
         productOptions |-> uniqueVariantTitles(rows),
         variants |-> [i \in 1..Len(rows) |-> variant(rows[i])]]

NoInput == [handle |-> "", productOptions |-> <<>>, variants |-> <<>>]

\* the quantities array built by syncInventoryForProduct
RECURSIVE quantityLines(_, _)
quantityLines(rows, nodes) ==
    IF rows = <<>> THEN <<>>
    ELSE LET row == rows[Len(rows)]
             rest == quantityLines(SubSeq(rows, 1, Len(rows) - 1), nodes)
             sku == Trim(row.VariantSKU)
             qtyRaw == row.VariantInventoryQuantity
         IN  IF sku = "" THEN rest
             ELSE IF qtyRaw = Undefined \/ qtyRaw = EmptyString THEN rest
             ELSE IF qtyRaw.nan THEN rest
             ELSE IF InventoryItemId(nodes, sku) = "" THEN rest
             ELSE Append(rest, [inventoryItemId |-> InventoryItemId(nodes, sku),
                                quantity |-> qtyRaw.v])

(***************************************************************************)
(* getConfig (config.js): the four required settings of process.env        *)
(***************************************************************************)
Unset == [set |-> FALSE, text |-> ""]
Setting(t) == [set |-> TRUE, text |-> t]

\* !value of an environment variable: undefined and "" are both falsy
Falsy(value) == ~value.set \/ value.text = ""

Envs ==
    [SHOPIFY_STORE_DOMAIN : {Unset, Setting(""), Setting("shop.myshopify.com")},
     SHOPIFY_ACCESS_TOKEN : {Unset, Setting(""), Setting("shpca_1")},
     SHOPIFY_API_VERSION : {Unset, Setting(""), Setting("2025-10")},
     SHOPIFY_DEFAULT_LOCATION_ID :
         {Unset, Setting(""), Setting("gid://shopify/Location/1")}]

\* what ends the process: an Error of the pre-flight (with the names its
\* message enumerates) or an error thrown by a remote call
NoError == [kind |-> "none", sheet |-> "", names |-> <<>>]
ConfigError(missing) == [kind |-> "config", sheet |-> "", names |-> missing]
NoProductDataError ==
    [kind |-> "noProductData", sheet |-> "Products", names |-> <<>>]
ColumnsError(sheetName, missing) ==
    [kind |-> "columns", sheet |-> sheetName, names |-> missing]
RemoteError == [kind |-> "remote", sheet |-> "", names |-> <<>>]

NoConfig ==
    [storeDomain |-> "", accessToken |-> "", apiVersion |-> "",
     defaultLocationId |-> ""]

\* the required-setting tests of getConfig, in the order of lines 10-13
CheckedSettings ==
    <<"SHOPIFY_STORE_DOMAIN", "SHOPIFY_ACCESS_TOKEN", "SHOPIFY_API_VERSION",
      "SHOPIFY_DEFAULT_LOCATION_ID">>

\* getConfig without the test of line 13
getConfig_LocationOptional(processEnv) ==
    LET missing ==
            SelectSeq(SubSeq(CheckedSettings, 1, 3),
                      LAMBDA n : Falsy(processEnv[n]))
    IN  IF Len(missing) > 0
        THEN [threw |-> TRUE, error |-> ConfigError(missing),
              value |-> NoConfig]
        ELSE [threw |-> FALSE, error |-> NoError,
              value |-> [storeDomain |-> processEnv.SHOPIFY_STORE_DOMAIN.text,
                         accessToken |-> processEnv.SHOPIFY_ACCESS_TOKEN.text,
                         apiVersion |-> processEnv.SHOPIFY_API_VERSION.text,
                         defaultLocationId |->
                             processEnv.SHOPIFY_DEFAULT_LOCATION_ID.text]]

getConfig(processEnv) ==
    LET missing == SelectSeq(CheckedSettings, LAMBDA n : Falsy(processEnv[n]))
    IN  IF Len(missing) > 0
        THEN [threw |-> TRUE, error |-> ConfigError(missing),
              value |-> NoConfig]
        ELSE [threw |-> FALSE, error |-> NoError,
              value |-> [storeDomain |-> processEnv.SHOPIFY_STORE_DOMAIN.text,
                         accessToken |-> processEnv.SHOPIFY_ACCESS_TOKEN.text,
                         apiVersion |-> processEnv.SHOPIFY_API_VERSION.text,
                         defaultLocationId |->
                             processEnv.SHOPIFY_DEFAULT_LOCATION_ID.text]]

(***************************************************************************)
(* parseExcelFile and validateColumns (excelParser.js): a sheet is known   *)
(* by whether it has data rows and by the columns of its first row.        *)
(***************************************************************************)
REQUIRED_PRODUCT_COLUMNS ==
    <<"ProductHandle", "ProductTitle", "ProductDescriptionHtml", "ProductType",
      "Vendor", "Tags", "VariantSKU", "VariantTitle", "VariantPrice">>
REQUIRED_IMAGE_COLUMNS == <<"ProductHandle", "ImageSrc">>
REQUIRED_METAFIELD_COLUMNS ==
    <<"ProductHandle", "Namespace", "Key", "Type", "Value">>

Columns(names) == {names[i] : i \in 1..Len(names)}
Sheet(hasRows, columns) == [hasRows |-> hasRows, columns |-> columns]
EmptySheet == Sheet(FALSE, {})

ProductSheets ==
    {EmptySheet,
     Sheet(TRUE, Columns(REQUIRED_PRODUCT_COLUMNS)),
     Sheet(TRUE, Columns(REQUIRED_PRODUCT_COLUMNS) \ {"VariantSKU"}),
     Sheet(TRUE, Columns(REQUIRED_PRODUCT_COLUMNS) \ {"ProductHandle", "Tags"})}
ImageSheets ==
    {Sheet(TRUE, Columns(REQUIRED_IMAGE_COLUMNS)),
     Sheet(TRUE, {"ProductHandle", "ImageAltText"})}
MetafieldSheets ==
    {EmptySheet,
     Sheet(TRUE, Columns(REQUIRED_METAFIELD_COLUMNS) \ {"Key"})}
Files == [Products : ProductSheets, Images : ImageSheets,
          Metafields : MetafieldSheets]

\* validateColumns testing the first required column only
validateColumns_FirstOnly(sheet, requiredColumns, sheetName) ==
    IF ~sheet.hasRows \/ requiredColumns[1] \in sheet.columns
    THEN NoError
    ELSE ColumnsError(sheetName, <<requiredColumns[1]>>)

validateColumns(sheet, requiredColumns, sheetName) ==
    LET missing ==
            SelectSeq(requiredColumns, LAMBDA col : col \notin sheet.columns)
    IN  IF ~sheet.hasRows THEN NoError
        ELSE IF Len(missing) > 0 THEN ColumnsError(sheetName, missing)
        ELSE NoError

\* the first Error parseExcelFile throws, if any
parseExcelFile(workbook) ==
    LET products ==
            validateColumns(workbook.Products, REQUIRED_PRODUCT_COLUMNS,
                            "Products")
        images ==
            validateColumns(workbook.Images, REQUIRED_IMAGE_COLUMNS, "Images")
        metafields ==
            validateColumns(workbook.Metafields, REQUIRED_METAFIELD_COLUMNS,
                            "Metafields")
    IN  IF ~workbook.Products.hasRows THEN NoProductDataError
        ELSE IF products # NoError THEN products
        ELSE IF workbook.Images.hasRows /\ images # NoError THEN images
        ELSE IF workbook.Metafields.hasRows /\ metafields # NoError
             THEN metafields
        ELSE NoError

\* the line logged after the last key (line 337); it carries no counts
NoSummary == [line |-> "", counts |-> <<>>]
AllProcessed == [line |-> "All products processed.", counts |-> <<>>]

(***************************************************************************)
(* State                                                                   *)
(***************************************************************************)
VARIABLES
    env,               \* process.env, the four settings getConfig reads
    file,              \* the workbook read by parseExcelFile
    config,            \* CONFIG of productSync.js
    fatal,             \* the error that ended the process, if any
    summary,           \* the line logged after the last key
    catalogue,         \* the remote product of each key, where the remote is
                       \* modelled (SpecRerun); <<>> where any reply can come
    pass,              \* which run of the program this is: 1 or 2
    dryRun,            \* the --dry-run flag
    productsByHandle,  \* the grouped workbook
    keyIdx,            \* index of the grouping key being processed
    opc,               \* where the orchestrator is suspended
    request,           \* the call in progress: operation, key and variables
    cpc,               \* where callShopifyGraphQL is suspended
    attempt,           \* callShopifyGraphQL: attempt
    backoffMs,         \* callShopifyGraphQL: backoffMs
    waitMs,            \* the duration handed to sleep() while sleeping
    pending,           \* callShopifyGraphQL: data, while pacing
    result,            \* what the call returned or threw
    requests,          \* history: client.post calls of the call in progress
    lastReply,         \* history: the reply to the latest request, if any
    calls,             \* history: the calls started in this pass, in order
    outcomes,          \* history: how each finished key ended (its log line)
    failedOpen         \* history: a reply of this pass had an unusable envelope

vars == <<env, file, config, fatal, summary, catalogue, pass,
          dryRun, productsByHandle, keyIdx, opc, request, cpc, attempt,
          backoffMs, waitMs, pending, result, requests, lastReply, calls,
          outcomes, failedOpen>>

\* the inputs of a run: no step changes them
inputVars == <<env, file, dryRun, productsByHandle>>

NoRequest == [op |-> "none", key |-> 0, input |-> NoInput, quantities |-> <<>>]
Request(op, k, input, q) ==
    [op |-> op, key |-> k, input |-> input, quantities |-> q]

NoResult == [kind |-> "none", data |-> NoData, err |-> NoErr]
Returned(data) == [kind |-> "returned", data |-> data, err |-> NoErr]
Thrown(err) == [kind |-> "thrown", data |-> NoData, err |-> err]

NoReply == [kind |-> "none", data |-> NoData, err |-> NoErr]
SuccessReply(data) == [kind |-> "success", data |-> data, err |-> NoErr]
FailureReply(err) == [kind |-> "failure", data |-> NoData, err |-> err]

Start ==
    /\ env \in Envs
    /\ file \in Files
    /\ config = NoConfig
    /\ fatal = NoError
    /\ summary = NoSummary
    /\ dryRun \in BOOLEAN
    /\ productsByHandle \in
          IF file.Products.hasRows THEN Workbooks ELSE {<<>>}
    /\ keyIdx = 0
    /\ opc = "load"
    /\ request = NoRequest
    /\ cpc = "idle"
    /\ attempt = 0
    /\ backoffMs = INITIAL_BACKOFF_MS
    /\ waitMs = 0
    /\ pending = NoData
    /\ result = NoResult
    /\ requests = 0
    /\ lastReply = NoReply
    /\ calls = <<>>
    /\ outcomes = <<>>
    /\ failedOpen = FALSE
    /\ pass = 1

\* one run of the program against a remote that may answer anything
Init ==
    /\ Start
    /\ catalogue = <<>>

(***************************************************************************)
(* callShopifyGraphQL                                                      *)
(***************************************************************************)
\* the backoff interval kept from one call to the next
StartCall_KeepsBackoff(op, k, input, q) ==
    /\ request' = Request(op, k, input, q)
    /\ calls' = Append(calls, [key |-> k, op |-> op])
    /\ UNCHANGED backoffMs
    /\ waitMs' = 0
    /\ pending' = NoData
    /\ lastReply' = NoReply
    /\ attempt' = 0 + 1
    /\ requests' = 1
    /\ cpc' = "inflight"
    /\ result' = NoResult

\* entry of callShopifyGraphQL up to the first await of client.post
StartCall(op, k, input, q) ==
    /\ request' = Request(op, k, input, q)
    /\ calls' = Append(calls, [key |-> k, op |-> op])
    /\ backoffMs' = INITIAL_BACKOFF_MS
    /\ waitMs' = 0
    /\ pending' = NoData
    /\ lastReply' = NoReply
    /\ IF LoopGuard(0)
       THEN /\ attempt' = 0 + 1
            /\ requests' = 1
            /\ cpc' = "inflight"
            /\ result' = NoResult
       ELSE /\ attempt' = 0
            /\ requests' = 0
            /\ cpc' = "thrown"
            /\ result' = Thrown(UnexpectedStateError)

\* no call in progress
NoCall ==
    /\ request' = NoRequest
    /\ cpc' = "idle"
    /\ attempt' = 0
    /\ backoffMs' = INITIAL_BACKOFF_MS
    /\ waitMs' = 0
    /\ pending' = NoData
    /\ result' = NoResult
    /\ requests' = 0
    /\ lastReply' = NoReply
    /\ UNCHANGED calls

orchVars == <<inputVars, config, fatal, summary, pass, keyIdx, opc, request,
              calls, outcomes>>

\* client.post resolves with the body data: lines 97-115
Resolve(data) ==
    /\ lastReply' = SuccessReply(data)
    /\ IF HasGraphQLErrors(data)
       THEN /\ cpc' = "returned"
            /\ result' = Returned(data)
            /\ waitMs' = 0
            /\ pending' = NoData
       ELSE LET throttleInfo == extractThrottleInfo(data)
                wait == applyPreemptiveThrottleWait(throttleInfo)
            IN  IF wait.sleeps
                THEN /\ cpc' = "pacing"
                     /\ waitMs' = wait.ms
                     /\ pending' = data
                     /\ result' = NoResult
                ELSE /\ cpc' = "returned"
                     /\ result' = Returned(data)
                     /\ waitMs' = 0
                     /\ pending' = NoData
    /\ failedOpen' = (failedOpen \/ UnusableEnvelope(data))
    /\ UNCHANGED <<attempt, backoffMs, requests>>
    /\ UNCHANGED orchVars

ReplySuccess ==
    /\ cpc = "inflight"
    /\ \E data \in Bodies(request.op) : Resolve(data)
    /\ UNCHANGED catalogue

\* the pacing sleep placed inside the loop: the request is sent again
PacingDone_Resends ==
    /\ cpc = "pacing"
    /\ IF LoopGuard(attempt)
       THEN /\ cpc' = "inflight"
            /\ attempt' = attempt + 1
            /\ requests' = requests + 1
            /\ result' = NoResult
            /\ UNCHANGED pending
       ELSE /\ cpc' = "returned"
            /\ result' = Returned(pending)
            /\ pending' = NoData
            /\ UNCHANGED <<attempt, requests>>
    /\ waitMs' = 0
    /\ UNCHANGED <<backoffMs, lastReply, failedOpen>>
    /\ UNCHANGED <<orchVars, catalogue>>

\* the sleep of applyPreemptiveThrottleWait ends: return data (line 115)
PacingDone ==
    /\ cpc = "pacing"
    /\ cpc' = "returned"
    /\ result' = Returned(pending)
    /\ pending' = NoData
    /\ waitMs' = 0
    /\ UNCHANGED <<attempt, backoffMs, requests, lastReply, failedOpen>>
    /\ UNCHANGED <<orchVars, catalogue>>

\* client.post rejects: the catch block, lines 116-151
ReplyError ==
    /\ cpc = "inflight"
    /\ \E err \in RateLimitErrors \cup OtherFailures :
        /\ lastReply' = FailureReply(err)
        /\ IF IsRateLimit(err)
           THEN IF RetriesExhausted(attempt)
                THEN /\ cpc' = "thrown"
                     /\ result' = Thrown(err)
                     /\ waitMs' = 0
                ELSE /\ cpc' = "backoff"
                     /\ waitMs' = RetryAfterMs(backoffMs, err.retryAfter)
                     /\ result' = NoResult
           ELSE /\ cpc' = "thrown"
                /\ result' = Thrown(err)
                /\ waitMs' = 0
    /\ UNCHANGED <<attempt, backoffMs, requests, pending, failedOpen>>
    /\ UNCHANGED <<orchVars, catalogue>>

\* the backoff sleep ends: lines 141-142, then the loop head, lines 88-92
BackoffDone ==
    /\ cpc = "backoff"
    /\ backoffMs' = NextBackoff(backoffMs)
    /\ waitMs' = 0
    /\ IF LoopGuard(attempt)
       THEN /\ attempt' = attempt + 1
            /\ requests' = requests + 1
            /\ cpc' = "inflight"
            /\ result' = NoResult
       ELSE /\ cpc' = "thrown"
            /\ result' = Thrown(UnexpectedStateError)
            /\ UNCHANGED <<attempt, requests>>
    /\ lastReply' = NoReply
    /\ UNCHANGED <<pending, failedOpen>>
    /\ UNCHANGED <<orchVars, catalogue>>

(***************************************************************************)
(* syncAllProductsFromExcel and main                                       *)
(***************************************************************************)
\* the dry-run branch never taken
SkipsWrites_Never(flag) == FALSE
\* the userErrors test of lines 310-319 left out
ShouldSyncInventory_IgnoresUserErrors(payload) ==
    payload.present /\ payload.product

\* fetchProductByHandle returning the entity without its variants
fetchProductByHandle_DropsVariants(data) ==
    IF data.product.isNull THEN NullProduct ELSE Product(data.product.id, <<>>)

\* a body that carries errors read as "no product", whatever its data
fetchProductByHandle_NullOnErrors(data) ==
    IF data.errors \/ data.product.isNull THEN NullProduct ELSE data.product

\* fetchProductByHandle, lines 179-186: data?.data?.productByHandle || null
fetchProductByHandle(data) ==
    IF data.product.isNull THEN NullProduct ELSE data.product

\* if (dryRun) ... continue, line 274
SkipsWrites(flag) == flag

\* lines 301-322: the upsert result leads on to syncInventoryForProduct
ShouldSyncInventory(payload) ==
    payload.present /\ ~payload.userErrors /\ payload.product

\* the log line that ends a record whose upsert result is not synced
UpsertEnding(payload) ==
    IF ~payload.present THEN "noPayload"
    ELSE IF payload.userErrors THEN "userErrors"
    ELSE "noProduct"

\* the loop taking the keys from the last to the first
NextKey_Backwards(k) ==
    /\ keyIdx' = k
    /\ UNCHANGED <<inputVars, catalogue, pass, config, fatal, failedOpen>>
    /\ IF k > Len(productsByHandle)
       THEN /\ opc' = "done"
            /\ summary' = AllProcessed
            /\ NoCall
       ELSE /\ opc' = "lookup"
            /\ UNCHANGED summary
            /\ StartCall("fetchProductByHandle",
                         Len(productsByHandle) + 1 - k, NoInput, <<>>)

\* head of the for loop (line 259) for the k-th key, up to the await of
\* fetchProductByHandle (line 264); after the last key, line 337
NextKey(k) ==
    /\ keyIdx' = k
    /\ UNCHANGED <<inputVars, catalogue, pass, config, fatal, failedOpen>>
    /\ IF k > Len(productsByHandle)
       THEN /\ opc' = "done"
            /\ summary' = AllProcessed
            /\ NoCall
       ELSE /\ opc' = "lookup"
            /\ UNCHANGED summary
            /\ StartCall("fetchProductByHandle", k, NoInput, <<>>)

\* the record of keyIdx ends with the given log line; on to the next key
EndRecord(ending) ==
    /\ outcomes' = Append(outcomes, ending)
    /\ NextKey(keyIdx + 1)

\* the orchestrator goes on to a further call for the same key
Continue(pc, op, input, q) ==
    /\ opc' = pc
    /\ StartCall(op, keyIdx, input, q)
    /\ UNCHANGED <<inputVars, catalogue, pass, config, fatal, summary, keyIdx,
                   outcomes, failedOpen>>

\* the process ends with a failure before the loop has begun
Abort(pc, err) ==
    /\ opc' = pc
    /\ fatal' = err
    /\ NoCall
    /\ UNCHANGED <<inputVars, catalogue, pass, config, summary, keyIdx,
                   outcomes, failedOpen>>

\* index.js requires productSync.js (part_001:6), whose line 4 runs
\* CONFIG = getConfig() outside any try: an Error is an uncaught exception
Require ==
    /\ opc = "load"
    /\ LET loaded == getConfig(env)
       IN  IF loaded.threw
           THEN Abort("crashed", loaded.error)
           ELSE /\ opc' = "start"
                /\ config' = loaded.value
                /\ NoCall
                /\ UNCHANGED <<inputVars, catalogue, pass, fatal, summary,
                               keyIdx, outcomes, failedOpen>>

\* main, lines 28-40: getConfig, parseExcelFile, then the pass begins; an
\* Error is caught at line 41 and ends the process with exit code 1
Main ==
    /\ opc = "start"
    /\ LET settings == getConfig(env)
           parsed == parseExcelFile(file)
       IN  IF settings.threw THEN Abort("exit", settings.error)
           ELSE IF parsed # NoError THEN Abort("exit", parsed)
           ELSE /\ UNCHANGED outcomes
                /\ NextKey(1)

\* fetchProductByHandle (line 264) throws: nothing in the loop catches it,
\* main's catch (lines 41-44) logs it and calls process.exit(1)
LookupThrown ==
    /\ opc = "lookup"
    /\ cpc = "thrown"
    /\ opc' = "exit"
    /\ fatal' = RemoteError
    /\ NoCall
    /\ UNCHANGED <<inputVars, catalogue, pass, config, summary, keyIdx,
                   outcomes, failedOpen>>

\* fetchProductByHandle returns: lines 179-186, then lines 266-296
LookupReturned ==
    /\ opc = "lookup"
    /\ cpc = "returned"
    /\ LET group == productsByHandle[keyIdx]
           existingProduct == fetchProductByHandle(result.data)
           productInput ==
               buildProductSetInput(group.handle, group.rows, existingProduct)
       IN  IF SkipsWrites(dryRun)
           THEN EndRecord("dryRun")
           ELSE Continue("upsert", "productSet", productInput, <<>>)

\* the productSet call throws: caught at line 332
UpsertThrown ==
    /\ opc = "upsert"
    /\ cpc = "thrown"
    /\ EndRecord("failed")

\* the productSet call returns: lines 297-331 and, on a product, the entry of
\* syncInventoryForProduct up to its await of fetchProductByHandle (line 196);
\* CONFIG.defaultLocationId is non-empty whenever getConfig returned
UpsertReturned ==
    /\ opc = "upsert"
    /\ cpc = "returned"
    /\ LET payload == result.data.payload
       IN  IF ShouldSyncInventory(payload)
           THEN Continue("refetch", "refetch", NoInput, <<>>)
           ELSE EndRecord(UpsertEnding(payload))

\* the re-fetch of syncInventoryForProduct throws: caught at line 332
RefetchThrown ==
    /\ opc = "refetch"
    /\ cpc = "thrown"
    /\ EndRecord("failed")

\* the re-fetch returns: lines 197-252
RefetchReturned ==
    /\ opc = "refetch"
    /\ cpc = "returned"
    /\ LET product == fetchProductByHandle(result.data)
           quantities ==
               quantityLines(productsByHandle[keyIdx].rows, product.nodes)
       IN  IF product.isNull THEN EndRecord("notFoundAfterUpsert")
           ELSE IF Len(quantities) = 0 THEN EndRecord("noInventoryRows")
           ELSE Continue("setInventory", "inventorySetQuantities", NoInput,
                         quantities)

\* setInventoryQuantities throws: caught at line 332
SetInventoryThrown ==
    /\ opc = "setInventory"
    /\ cpc = "thrown"
    /\ EndRecord("failed")

\* setInventoryQuantities returns: lines 210-226, then the next key
SetInventoryReturned ==
    /\ opc = "setInventory"
    /\ cpc = "returned"
    /\ EndRecord("synced")

Next ==
    \/ Require
    \/ Main
    \/ ReplySuccess
    \/ PacingDone
    \/ ReplyError
    \/ BackoffDone
    \/ LookupThrown
    \/ LookupReturned
    \/ UpsertThrown
    \/ UpsertReturned
    \/ RefetchThrown
    \/ RefetchReturned
    \/ SetInventoryThrown
    \/ SetInventoryReturned

Spec == Init /\ [][Next]_vars

\* Every request is eventually answered or fails, and the two sleeps of a
\* call are timers (sleep, lines 10-12 of shopifyClient.js), which expire.
CallFairness ==
    /\ WF_vars(ReplySuccess \/ ReplyError)
    /\ WF_vars(PacingDone)
    /\ WF_vars(BackoffDone)

\* a run over a workbook of one record: every call of the program goes
\* through the same callShopifyGraphQL, whatever the record it is made for
OneRecordInit ==
    /\ Init
    /\ productsByHandle \in {<<>>, Workbook(1)}

SpecFair == OneRecordInit /\ [][Next]_vars /\ CallFairness

(***************************************************************************)
(* Running the program twice on the same workbook against a remote that    *)
(* changes by the program's requests only.  productSet updates the variant *)
(* an entry names by id and creates a variant for an entry without id      *)
(* (README, "How It Avoids Duplicates"); variants the payload does not     *)
(* list are dropped.                                                       *)
(***************************************************************************)
\* the ids the remote gives to the variant created for the i-th entry
CreatedId(p, i) ==
    IF p = 1 THEN <<"A1", "A2", "A3">>[i] ELSE <<"B1", "B2", "B3">>[i]
CreatedItem(p, i) ==
    IF p = 1 THEN <<"IA1", "IA2", "IA3">>[i] ELSE <<"IB1", "IB2", "IB3">>[i]

RECURSIVE SetVariants(_, _, _)
SetVariants(nodes, variants, p) ==
    IF variants = <<>> THEN <<>>
    ELSE LET n == Len(variants)
             entry == variants[n]
             before == SetVariants(nodes, SubSeq(variants, 1, n - 1), p)
             named == SelectSeq(nodes, LAMBDA node : node.id = entry.id)
         IN  IF entry.id # "" /\ named # <<>>
             THEN IF \E j \in 1..Len(before) : before[j].id = entry.id
                  THEN before
                  ELSE Append(before, [named[1] EXCEPT !.sku = entry.sku])
             ELSE Append(before,
                         Node(CreatedId(p, n), entry.sku, CreatedItem(p, n)))

\* the catalogue once the remote has executed the request
CatalogueAfter(cat, req, p) ==
    IF req.op = "productSet"
    THEN LET old == cat[req.key]
         IN  [cat EXCEPT ![req.key] =
                 Product(IF old.isNull THEN "P0" ELSE old.id,
                         SetVariants(old.nodes, req.input.variants, p))]
    ELSE cat

\* the body the remote answers the request with
Answer(cat, req) ==
    IF req.op \in {"fetchProductByHandle", "refetch"}
    THEN Data(FALSE, NoCost, cat[req.key], NoPayload)
    ELSE IF req.op = "productSet"
    THEN Data(FALSE, NoCost, NullProduct, Payload(FALSE, TRUE))
    ELSE Data(FALSE, NoCost, NullProduct, Payload(FALSE, FALSE))

RerunInit ==
    /\ Start
    /\ ~getConfig(env).threw
    /\ parseExcelFile(file) = NoError
    /\ catalogue \in [1..Len(productsByHandle) -> Products]

\* client.post resolves with the remote's answer
RemoteReply ==
    /\ cpc = "inflight"
    /\ Resolve(Answer(catalogue, request))
    /\ catalogue' = CatalogueAfter(catalogue, request, pass)

\* the first run has ended: the program is started again on the same input
NextPass ==
    /\ pass = 1
    /\ opc = "done"
    /\ pass' = 2
    /\ opc' = "load"
    /\ keyIdx' = 0
    /\ config' = NoConfig
    /\ summary' = NoSummary
    /\ calls' = <<>>
    /\ outcomes' = <<>>
    /\ failedOpen' = FALSE
    /\ UNCHANGED <<inputVars, catalogue, fatal, request, cpc, attempt,
                   backoffMs, waitMs, pending, result, requests, lastReply>>

RerunNext ==
    \/ Require
    \/ Main
    \/ RemoteReply
    \/ LookupReturned
    \/ UpsertReturned
    \/ RefetchReturned
    \/ SetInventoryReturned
    \/ NextPass

SpecRerun == RerunInit /\ [][RerunNext]_vars

(***************************************************************************)
(* Notions shared by the properties                                        *)
(***************************************************************************)
\* this step receives a reply to the request in flight
Receives(kind) == cpc = "inflight" /\ lastReply'.kind = kind

\* this step neither issues a request of the call in progress nor sleeps
EndsCall(outcome) ==
    /\ cpc' = outcome
    /\ requests' = requests
    /\ waitMs' = 0

\* a step taken once the call has returned or thrown belongs to the
\* orchestrator: it starts another call or none, never a request of this call
CallIsOver ==
    cpc \in {"returned", "thrown"} =>
        \/ cpc' = "idle"
        \/ calls' # calls /\ requests' <= 1

RECURSIVE Pow2(_)
Pow2(n) == IF n <= 0 THEN 1 ELSE 2 * Pow2(n - 1)

\* the reply or error is an HTTP 429 rejection
Status429(err) == err.kind = "http" /\ err.status = 429

WriteOps == {"productSet", "inventorySetQuantities"}
InventoryOps == {"refetch", "inventorySetQuantities"}

\* the calls of the pass that were started for key k
CallsOf(k) == SelectSeq(calls, LAMBDA c : c.key = k)

(***************************************************************************)
(* C1: one callShopifyGraphQL call issues at most MAX_RETRIES + 1 = 6      *)
(* requests.  A 429 received after fewer than 5 retries leads to one wait  *)
(* and then exactly one more request; a 429 received after 5 retries is    *)
(* thrown to the caller with no wait and no further request.               *)
(***************************************************************************)
C1_State ==
    /\ requests <= MAX_RETRIES + 1
    /\ cpc = "backoff" => Status429(lastReply.err) /\ requests - 1 < 5
    /\ (cpc = "thrown" /\ Status429(result.err)) => requests - 1 = 5

C1_Step ==
    /\ (Receives("failure") /\ Status429(lastReply'.err) /\ requests - 1 < 5)
          => cpc' = "backoff" /\ requests' = requests
    /\ (Receives("failure") /\ Status429(lastReply'.err) /\ requests - 1 >= 5)
          => EndsCall("thrown") /\ result'.err = lastReply'.err
    /\ cpc = "backoff" => cpc' = "inflight" /\ requests' = requests + 1
    /\ CallIsOver

C1_RequestBound == []C1_State /\ [][C1_Step]_vars

C1_Witness ==
    /\ cpc = "thrown"
    /\ Status429(result.err)
    /\ requests = MAX_RETRIES + 1

(***************************************************************************)
(* C2: within one call the retry count grows by exactly 1 with every       *)
(* request, the backoff interval doubles from one retry to the next        *)
(* (1000 ms before the first retry, 1000 * 2^(k-1) ms before the k-th),    *)
(* and the 429 that exceeds the retry bound is thrown unchanged.           *)
(***************************************************************************)
C2_State ==
    /\ cpc # "idle" => attempt = requests
    /\ cpc # "idle" => backoffMs = 1000 * Pow2(attempt - 1)
    /\ (cpc = "thrown" /\ requests = MAX_RETRIES + 1
            /\ lastReply.kind = "failure")
          => result.err = lastReply.err

C2_Step ==
    cpc = "backoff" =>
        /\ attempt' = attempt + 1
        /\ requests' = requests + 1
        /\ backoffMs' = 2 * backoffMs

C2_BackoffDoubles == []C2_State /\ [][C2_Step]_vars

C2_Witness ==
    /\ cpc = "backoff"
    /\ attempt = 3
    /\ backoffMs = 4000

(***************************************************************************)
(* C3: the wait before a retry is max(backoff, suggested delay in ms).     *)
(* A suggested delay above the backoff is waited in full; an absent, zero, *)
(* negative or non-numeric suggestion leaves exactly the backoff.          *)
(* A suggestion is read here off the header text without parseFloat: a     *)
(* text of digits only is that count of seconds, "-" before digits is      *)
(* negative, and a text with no digit, or one starting with a letter, is   *)
(* not a number.                                                           *)
(***************************************************************************)
IsCount(t) == t # <<>> /\ \A i \in 1..Len(t) : t[i] \in Digits

RECURSIVE CountOf(_)
CountOf(t) ==
    IF t = <<>> THEN 0
    ELSE 10 * CountOf(SubSeq(t, 1, Len(t) - 1)) + DigitValue(t[Len(t)])

IsNegativeCount(t) == Len(t) >= 2 /\ t[1] = "-" /\ IsCount(Tail(t))

IsNonNumeric(t) ==
    /\ t # <<>>
    /\ \/ t[1] = "x"
       \/ \A i \in 1..Len(t) : t[i] \notin Digits

IsNumber(x) == x.type = "number" /\ ~x.nan

LowCredits(d) ==
    /\ d.cost.present
    /\ IsNumber(d.cost.currentlyAvailable)
    /\ IsNumber(d.cost.restoreRate)
    /\ d.cost.currentlyAvailable.v < 50
    /\ d.cost.restoreRate.v > 0

EnoughCredits(d) ==
    /\ d.cost.present
    /\ IsNumber(d.cost.currentlyAvailable)
    /\ d.cost.currentlyAvailable.v >= 50

\* ceil((2*50 - availableCredits) / restoreRate * 1000)
ClaimedWait(d) ==
    LET n == (2 * 50 - d.cost.currentlyAvailable.v) * 1000
        r == d.cost.restoreRate.v
    IN  IF n % r = 0 THEN n \div r ELSE (n \div r) + 1

C4_Step ==
    Receives("success") =>
        LET d == lastReply'.data
        IN  /\ LowCredits(d) => cpc' = "pacing" /\ waitMs' = ClaimedWait(d)
            /\ EnoughCredits(d) => cpc' = "returned" /\ waitMs' = 0

C4_PacesEveryLowCreditResponse == [][C4_Step]_vars

(***************************************************************************)
(* C5: a successful transport response with a non-empty list of            *)
(* application-level errors is returned to the caller as it is, at once,   *)
(* and no further request is issued for the call; a further request of a   *)
(* call is only ever issued after a 429.                                   *)
(***************************************************************************)
C5_Step ==
    /\ (Receives("success") /\ lastReply'.data.errors)
          => EndsCall("returned") /\ result' = Returned(lastReply'.data)
    /\ (calls' = calls /\ requests' > requests)
          => lastReply.kind = "failure" /\ Status429(lastReply.err)
    /\ CallIsOver

C5_ErrorsReturnedAsIs == [][C5_Step]_vars

C5_Witness ==
    /\ cpc = "returned"
    /\ lastReply.kind = "success"
    /\ lastReply.data.errors
    /\ result.data = lastReply.data
    /\ requests = 2

(***************************************************************************)
(* C6: a transport failure other than HTTP 429 (network error, timeout,    *)
(* other status) is thrown to the caller at once: no wait, no further      *)
(* request of the call, however many 429 retries came before.              *)
(***************************************************************************)
C6_Step ==
    /\ (Receives("failure") /\ ~Status429(lastReply'.err))
          => EndsCall("thrown") /\ result' = Thrown(lastReply'.err)
    /\ CallIsOver

C6_OtherFailuresPropagate == [][C6_Step]_vars

C6_Witness ==
    /\ cpc = "thrown"
    /\ result.err.kind = "timeout"
    /\ requests = 3

(***************************************************************************)
(* C7: pacing fails open.  A successful response without an envelope, or   *)
(* whose availableCredits or restoreRate is missing or not a number, or    *)
(* whose restoreRate is not positive, is returned without any sleep; and   *)
(* a reply of a later call is paced on its own envelope alone, whatever    *)
(* unusable envelope an earlier call received.                             *)
(***************************************************************************)
FailsOpen(d) ==
    \/ ~d.cost.present
    \/ ~IsNumber(d.cost.currentlyAvailable)
    \/ ~IsNumber(d.cost.restoreRate)
    \/ d.cost.restoreRate.v <= 0

C7_Step ==
    Receives("success") =>
        LET d == lastReply'.data
        IN  /\ FailsOpen(d) =>
                  EndsCall("returned") /\ result' = Returned(d)
            /\ (failedOpen /\ ~d.errors /\ LowCredits(d)) =>
                  cpc' = "pacing" /\ waitMs' = ClaimedWait(d)

C7_PacingFailsOpen == [][C7_Step]_vars

C7_Witness ==
    /\ failedOpen
    /\ cpc = "pacing"
    /\ waitMs = 7000
    /\ Len(calls) >= 2

(***************************************************************************)
(* C8: no remote-call error of a record (lookup, upsert, re-fetch,         *)
(* set-inventory) leaves the orchestrator loop, and every key after a      *)
(* failing record is still processed.                                      *)
(***************************************************************************)
C8_ErrorsStayInLoop ==
    /\ opc = "exit" => calls = <<>>
    /\ \A k \in 1..Len(outcomes) :
          k < Len(productsByHandle) => CallsOf(k + 1) # <<>>

(***************************************************************************)
(* C9: a record whose productSet response carries user errors gets no      *)
(* inventory call (neither the re-fetch nor inventorySetQuantities), and   *)
(* the orchestrator goes on to the next key.                               *)
(***************************************************************************)
C9_State ==
    \A k \in 1..Len(outcomes) :
        outcomes[k] = "userErrors" =>
            /\ \A i \in 1..Len(calls) :
                  calls[i].key = k => calls[i].op \notin InventoryOps
            /\ k < Len(productsByHandle) => CallsOf(k + 1) # <<>>

C9_Step ==
    (/\ opc = "upsert"
     /\ cpc = "returned"
     /\ result.data.payload.present
     /\ result.data.payload.userErrors)
        => /\ keyIdx' = keyIdx + 1
           /\ outcomes' = Append(outcomes, "userErrors")
           /\ IF keyIdx < Len(productsByHandle)
              THEN /\ opc' = "lookup"
                   /\ calls' = Append(calls, [key |-> keyIdx + 1,
                                              op |-> "fetchProductByHandle"])
              ELSE opc' = "done" /\ calls' = calls

C9_UserErrorsSkipInventory == []C9_State /\ [][C9_Step]_vars

C9_Witness ==
    /\ outcomes = <<"userErrors">>
    /\ opc = "lookup"
    /\ keyIdx = 2
    /\ cpc = "inflight"

(***************************************************************************)
(* C10: in a dry run no write request (productSet, inventorySetQuantities) *)
(* is issued for any key, and after the lookup of a key the orchestrator   *)
(* goes on to the next key; writes are issued in live mode only.           *)
(***************************************************************************)
C10_State ==
    /\ dryRun => \A i \in 1..Len(calls) : calls[i].op \notin WriteOps
    /\ dryRun => request.op \notin WriteOps
    /\ \A k \in 1..Len(outcomes) : dryRun <=> outcomes[k] = "dryRun"

C10_Step ==
    (dryRun /\ opc = "lookup" /\ cpc = "returned")
        => /\ keyIdx' = keyIdx + 1
           /\ opc' \in {"lookup", "done"}

C10_DryRunIssuesNoWrite == []C10_State /\ [][C10_Step]_vars

C10_Witness ==
    /\ dryRun
    /\ outcomes = <<"dryRun">>
    /\ opc = "lookup"
    /\ keyIdx = 2
    /\ calls = <<[key |-> 1, op |-> "fetchProductByHandle"],
                 [key |-> 2, op |-> "fetchProductByHandle"]>>

(***************************************************************************)
(* C11: in a dry run no request of any kind, read or write, is issued for  *)
(* any key during the whole pass.  The lookup of line 264 precedes the     *)
(* dry-run branch of line 274, so the statement does not hold of the code. *)
(***************************************************************************)
C11_DryRunIssuesNoRequest ==
    dryRun => /\ calls = <<>>
              /\ request = NoRequest
              /\ requests = 0

(***************************************************************************)
(* C12: when the program is run twice on the same workbook and nothing     *)
(* else changes the remote in between, the second run creates no variant   *)
(* for a SKU that is already present; every productSet payload gives the   *)
(* row whose SKU is among the existing product's variants the id of a      *)
(* variant with that SKU, whatever the positions, and gives a row whose    *)
(* SKU is not among them no id.                                            *)
(***************************************************************************)
SkuPresent(product, sku) ==
    /\ sku # ""
    /\ \E j \in 1..Len(product.nodes) : product.nodes[j].sku = sku

VariantIds(product) == {product.nodes[j].id : j \in 1..Len(product.nodes)}

C12_State ==
    (opc = "upsert" /\ cpc = "inflight") =>
        LET rows == productsByHandle[keyIdx].rows
            existing == catalogue[keyIdx]
            entries == request.input.variants
        IN  /\ Len(entries) = Len(rows)
            /\ \A i \in 1..Len(rows) :
                  IF SkuPresent(existing, Trim(rows[i].VariantSKU))
                  THEN \E j \in 1..Len(existing.nodes) :
                          /\ existing.nodes[j].sku = Trim(rows[i].VariantSKU)
                          /\ existing.nodes[j].id = entries[i].id
                  ELSE entries[i].id = ""

C12_Step ==
    (pass = 2 /\ cpc = "inflight" /\ request.op = "productSet") =>
        LET before == catalogue[keyIdx]
            after == catalogue'[keyIdx]
        IN  \A j \in 1..Len(after.nodes) :
                SkuPresent(before, after.nodes[j].sku)
                    => after.nodes[j].id \in VariantIds(before)

Resolvable(product, sku) ==
    \E j \in 1..Len(product.nodes) :
        /\ product.nodes[j].sku = sku
        /\ product.nodes[j].inventoryItem # ""

\* the rows of the claim: non-empty SKU, non-empty quantity, resolvable SKU
\* and, in the amended statement, a quantity that is a number
LineRows(rows, product, numbersOnly) ==
    {i \in 1..Len(rows) :
        /\ Trim(rows[i].VariantSKU) # ""
        /\ rows[i].VariantInventoryQuantity \notin {Undefined, EmptyString}
        /\ numbersOnly => ~rows[i].VariantInventoryQuantity.nan
        /\ Resolvable(product, Trim(rows[i].VariantSKU))}

\* the n-th smallest element of a set of row indices
NthRow(S, n) == CHOOSE i \in S : Cardinality({j \in S : j < i}) = n - 1

C13_Sends(numbersOnly) ==
    (opc = "refetch" /\ cpc = "returned") =>
        LET rows == productsByHandle[keyIdx].rows
            product == result.data.product
            want == LineRows(rows, product, numbersOnly)
        IN  IF want = {}
            THEN /\ opc' # "setInventory"
                 /\ request'.op # "inventorySetQuantities"
                 /\ outcomes' # outcomes
                 /\ outcomes'[Len(outcomes')] \in
                       {"noInventoryRows", "notFoundAfterUpsert"}
            ELSE /\ opc' = "setInventory"
                 /\ request'.op = "inventorySetQuantities"
                 /\ request'.key = keyIdx
                 /\ calls' = Append(calls, [key |-> keyIdx,
                                            op |-> "inventorySetQuantities"])
                 /\ Len(request'.quantities) = Cardinality(want)
                 /\ \A n \in 1..Len(request'.quantities) :
                       LET row == rows[NthRow(want, n)]
                           line == request'.quantities[n]
                       IN  /\ line.quantity = row.VariantInventoryQuantity.v
                           /\ \E j \in 1..Len(product.nodes) :
                                 /\ product.nodes[j].sku = Trim(row.VariantSKU)
                                 /\ product.nodes[j].inventoryItem =
                                       line.inventoryItemId

\* at most one inventorySetQuantities call per record, after its re-fetch
C13_State ==
    \A k \in 1..Len(productsByHandle) :
        LET sets == SelectSeq(CallsOf(k),
                              LAMBDA c : c.op = "inventorySetQuantities")
        IN  /\ Len(sets) <= 1
            /\ Len(sets) = 1 => CallsOf(k)[Len(CallsOf(k))] = sets[1]

\* the claim as stated: a line for every non-empty quantity
C13_LinePerNonEmptyQuantity == [][C13_Sends(FALSE)]_vars

\* the amended claim: a line for every non-empty quantity that is a number
C13_LinePerNumericQuantity == []C13_State /\ [][C13_Sends(TRUE)]_vars

C13_Witness ==
    /\ opc = "setInventory"
    /\ cpc = "inflight"
    /\ keyIdx = 1
    /\ productsByHandle[1].rows[3].VariantInventoryQuantity = Str
    /\ request.quantities = <<[inventoryItemId |-> "I1", quantity |-> 10]>>

(***************************************************************************)
(* C14: records and remote calls never overlap.  The call in progress is   *)
(* the only one and belongs to the key being processed; a call is started  *)
(* only when the call before it has returned or thrown, with no request in *)
(* flight and no pacing or backoff wait pending; the keys are taken in     *)
(* input order, one after the other.                                       *)
(***************************************************************************)
C14_State ==
    /\ \A i \in 1..Len(calls) :
          IF i = 1 THEN calls[i].key = 1
          ELSE calls[i].key \in {calls[i - 1].key, calls[i - 1].key + 1}
    /\ cpc # "idle" =>
          /\ request.key = keyIdx
          /\ calls # <<>>
          /\ calls[Len(calls)] = [key |-> request.key, op |-> request.op]
    /\ cpc \in {"inflight", "returned", "thrown"} => waitMs = 0
    /\ \A i \in 1..Len(calls) : calls[i].key <= keyIdx

C14_Step ==
    /\ calls' # calls =>
          /\ cpc \in {"idle", "returned", "thrown"}
          /\ waitMs = 0
          /\ calls' = Append(calls, [key |-> keyIdx', op |-> request'.op])
    /\ keyIdx' # keyIdx =>
          /\ keyIdx' = keyIdx + 1
          /\ cpc \in {"idle", "returned", "thrown"}
    /\ cpc \in {"inflight", "pacing", "backoff"} =>
          /\ request' = request
          /\ calls' = calls

C14_OneCallAtATime == []C14_State /\ [][C14_Step]_vars

C14_Witness ==
    /\ calls = <<[key |-> 1, op |-> "fetchProductByHandle"],
                 [key |-> 1, op |-> "productSet"],
                 [key |-> 1, op |-> "refetch"],
                 [key |-> 1, op |-> "inventorySetQuantities"],
                 [key |-> 2, op |-> "fetchProductByHandle"]>>
    /\ keyIdx = 2
    /\ cpc = "backoff"
    /\ waitMs > 0

(***************************************************************************)
(* C15: getConfig fails exactly when one of the four required settings is  *)
(* unset or empty; the error enumerates the names of the missing settings, *)
(* each once, and no other; when all four are present the configuration    *)
(* returned holds their values unchanged.                                  *)
(***************************************************************************)
RequiredSettings ==
    {"SHOPIFY_STORE_DOMAIN", "SHOPIFY_ACCESS_TOKEN", "SHOPIFY_API_VERSION",
     "SHOPIFY_DEFAULT_LOCATION_ID"}

MissingSettings == {n \in RequiredSettings : ~env[n].set \/ env[n].text = ""}

C15_GetConfigReportsMissing ==
    /\ opc # "load" => (opc = "crashed" <=> MissingSettings # {})
    /\ opc = "crashed" =>
          /\ fatal.kind = "config"
          /\ {fatal.names[i] : i \in 1..Len(fatal.names)} = MissingSettings
          /\ Len(fatal.names) = Cardinality(MissingSettings)
          /\ config = NoConfig
    /\ opc \notin {"load", "crashed"} =>
          /\ config.storeDomain = env.SHOPIFY_STORE_DOMAIN.text
          /\ config.accessToken = env.SHOPIFY_ACCESS_TOKEN.text
          /\ config.apiVersion = env.SHOPIFY_API_VERSION.text
          /\ config.defaultLocationId = env.SHOPIFY_DEFAULT_LOCATION_ID.text
          /\ \A n \in RequiredSettings : env[n].set /\ env[n].text # ""

C15_Witness ==
    /\ opc = "crashed"
    /\ env.SHOPIFY_ACCESS_TOKEN = Setting("")
    /\ env.SHOPIFY_DEFAULT_LOCATION_ID = Unset
    /\ fatal.names = <<"SHOPIFY_ACCESS_TOKEN", "SHOPIFY_DEFAULT_LOCATION_ID">>

(***************************************************************************)
(* C16: when a required setting is missing or a required column is absent  *)
(* from a sheet that has rows, the process ends with a failure in its      *)
(* first steps: no call is started, no request is issued and no record is  *)
(* processed.                                                              *)
(***************************************************************************)
AbsentColumn(sheet, required) ==
    /\ sheet.hasRows
    /\ \E i \in 1..Len(required) : required[i] \notin sheet.columns

PreflightError ==
    \/ MissingSettings # {}
    \/ AbsentColumn(file.Products, REQUIRED_PRODUCT_COLUMNS)
    \/ AbsentColumn(file.Images, REQUIRED_IMAGE_COLUMNS)
    \/ AbsentColumn(file.Metafields, REQUIRED_METAFIELD_COLUMNS)

C16_State ==
    PreflightError =>
        /\ opc \in {"load", "start", "crashed", "exit"}
        /\ calls = <<>>
        /\ request = NoRequest
        /\ requests = 0
        /\ keyIdx = 0
        /\ outcomes = <<>>
        /\ opc \in {"crashed", "exit"} =>
              fatal.kind \in {"config", "columns", "noProductData"}

C16_Step ==
    /\ (opc = "load" /\ MissingSettings # {}) => opc' = "crashed"
    /\ (opc = "start" /\ PreflightError) => opc' = "exit"
    /\ opc \in {"crashed", "exit"} => UNCHANGED vars

C16_PreflightAborts == []C16_State /\ [][C16_Step]_vars

C16_Witness ==
    /\ opc = "exit"
    /\ file.Products.hasRows
    /\ "VariantSKU" \notin file.Products.columns
    /\ fatal = ColumnsError("Products", <<"VariantSKU">>)
    /\ calls = <<>>

(***************************************************************************)
(* C17: the lookup of a product that does not exist returns, it does not   *)
(* throw, and what it returns is null; the lookup of a product that exists *)
(* returns it with its variants.  After a returned lookup the orchestrator *)
(* builds the payload and, in live mode, issues the upsert: for a product  *)
(* not found every variant goes without id (it will be created).           *)
(***************************************************************************)
C17_Step ==
    /\ (opc = "lookup" /\ Receives("success")) =>
          /\ cpc' \in {"returned", "pacing"}
          /\ cpc' = "returned" => result'.data = lastReply'.data
    /\ (opc = "lookup" /\ cpc = "returned") =>
          LET found == result.data.product
              rows == productsByHandle[keyIdx].rows
          IN  IF dryRun
              THEN outcomes' = Append(outcomes, "dryRun")
              ELSE /\ opc' = "upsert"
                   /\ request'.op = "productSet"
                   /\ request'.key = keyIdx
                   /\ request'.input.handle = productsByHandle[keyIdx].handle
                   /\ Len(request'.input.variants) = Len(rows)
                   /\ \A i \in 1..Len(rows) :
                         IF SkuPresent(found, Trim(rows[i].VariantSKU))
                         THEN request'.input.variants[i].id
                                  \in VariantIds(found) \ {""}
                         ELSE request'.input.variants[i].id = ""

C17_LookupNotFoundCreates == [][C17_Step]_vars

C17_Witness ==
    /\ ~dryRun
    /\ opc = "upsert"
    /\ cpc = "inflight"
    /\ keyIdx = 1
    /\ \A i \in 1..Len(request.input.variants) :
          request.input.variants[i].id = ""

(***************************************************************************)
(* C18: one outcome per key is accumulated (Upserted, DryRunSkipped,       *)
(* UserErrorReported or TransportFailed) and, after the last key, the      *)
(* counts of the outcomes are reported.  The code keeps no outcome and the *)
(* line it logs after the last key (line 337) carries no count.            *)
(***************************************************************************)
Upserted == {"synced", "noInventoryRows", "notFoundAfterUpsert"}
Tally(kinds) == Cardinality({k \in 1..Len(outcomes) : outcomes[k] \in kinds})

C18_ReportsAggregateCounts ==
    opc = "done" =>
        /\ Len(outcomes) = Len(productsByHandle)
        /\ summary.counts = <<Tally(Upserted), Tally({"dryRun"}),
                              Tally({"userErrors"}), Tally({"failed"})>>

(***************************************************************************)
(* C19: every record runs lookup, then upsert, then the re-fetch, then     *)
(* inventorySetQuantities, the last two only after the record's upsert     *)
(* returned a product with no user errors, and every record that was       *)
(* started ends in exactly one terminal state.  The order holds of the     *)
(* code; a record whose lookup throws ends the process without reaching a  *)
(* terminal state (C8).                                                    *)
(***************************************************************************)
RecordCalls ==
    <<"fetchProductByHandle", "productSet", "refetch",
      "inventorySetQuantities">>

C19_Order ==
    \A k \in 1..Len(productsByHandle) :
        /\ Len(CallsOf(k)) <= 4
        /\ \A i \in 1..Len(CallsOf(k)) : CallsOf(k)[i].op = RecordCalls[i]

C19_Gate ==
    /\ (calls' # calls /\ request'.op = "productSet") =>
          opc = "lookup" /\ cpc = "returned"
    /\ (calls' # calls /\ request'.op = "refetch") =>
          /\ opc = "upsert" /\ cpc = "returned"
          /\ result.data.payload.present
          /\ ~result.data.payload.userErrors
          /\ result.data.payload.product
    /\ (calls' # calls /\ request'.op = "inventorySetQuantities") =>
          opc = "refetch" /\ cpc = "returned"

\* the records that have ended, each with one terminal state
C19_Ended ==
    Len(outcomes) =
        IF opc = "done" THEN Len(productsByHandle)
        ELSE IF opc = "exit" THEN keyIdx
        ELSE IF keyIdx = 0 THEN 0
        ELSE keyIdx - 1

C19_OrderOfCalls == []C19_Order /\ [][C19_Gate]_vars

C19_RecordStateMachine ==
    [](C19_Order /\ C19_Ended) /\ [][C19_Gate]_vars

(***************************************************************************)
(* C20: every callShopifyGraphQL call starts from attempt 0 and a backoff  *)
(* interval of 1000 ms: its first request is attempt 1 with no retry       *)
(* behind it, whatever retries, waits or failures the earlier calls of the *)
(* pass went through.                                                      *)
(***************************************************************************)
C20_State ==
    cpc \in {"inflight", "backoff"} =>
        /\ attempt = requests
        /\ backoffMs = 1000 * Pow2(requests - 1)

C20_Step ==
    calls' # calls =>
        /\ cpc' = "inflight"
        /\ attempt' = 1
        /\ requests' = 1
        /\ backoffMs' = 1000
        /\ waitMs' = 0

C20_RetryStatePerCall == []C20_State /\ [][C20_Step]_vars

C20_Witness ==
    /\ outcomes = <<"failed">>
    /\ keyIdx = 2
    /\ opc = "lookup"
    /\ cpc = "inflight"
    /\ attempt = 1
    /\ backoffMs = 1000

(***************************************************************************)
(* C21: the indexes by SKU are built anew for every product.  Every        *)
(* variant id in the productSet payload of a key is an id of the variant   *)
(* list that the lookup of that key has just returned, and every inventory *)
(* item id in the inventory lines of a key is one of the re-fetch of that  *)
(* key; nothing obtained for another key is carried over.                  *)
(***************************************************************************)
ItemIds(product) ==
    {product.nodes[j].inventoryItem : j \in 1..Len(product.nodes)}

C21_Step ==
    /\ (calls' # calls /\ request'.op = "productSet") =>
          /\ request.op = "fetchProductByHandle"
          /\ request.key = keyIdx
          /\ request'.key = keyIdx
          /\ result.kind = "returned"
          /\ \A i \in 1..Len(request'.input.variants) :
                request'.input.variants[i].id
                    \in VariantIds(result.data.product) \cup {""}
    /\ (calls' # calls /\ request'.op = "inventorySetQuantities") =>
          /\ request.op = "refetch"
          /\ request.key = keyIdx
          /\ request'.key = keyIdx
          /\ result.kind = "returned"
          /\ \A n \in 1..Len(request'.quantities) :
                request'.quantities[n].inventoryItemId
                    \in ItemIds(result.data.product) \ {""}
    /\ calls' = calls =>
          \/ request' = request
          \/ request' = NoRequest

C21_IndexesPerProduct == [][C21_Step]_vars

C21_Witness ==
    /\ outcomes = <<"synced">>
    /\ keyIdx = 2
    /\ opc = "upsert"
    /\ cpc = "inflight"
    /\ request.input.variants[3].sku = "S1"
    /\ request.input.variants[3].id = ""

(***************************************************************************)
(* C22: the option values of a productSet payload are the non-empty        *)
(* trimmed variant titles of the group, each exactly once, in the order of *)
(* the first row that carries them; the variants of the payload are one    *)
(* per row, in row order.                                                  *)
(***************************************************************************)
\* the first row of the group whose trimmed title is v
FirstRowWith(rows, v) ==
    CHOOSE i \in 1..Len(rows) :
        /\ Trim(rows[i].VariantTitle) = v
        /\ \A j \in 1..(i - 1) : Trim(rows[j].VariantTitle) # v

C22_OptionValuesFirstSeen ==
    request.op = "productSet" =>
        LET rows == productsByHandle[request.key].rows
            values == request.input.productOptions
            variants == request.input.variants
        IN  /\ \A a \in 1..Len(values) :
                  /\ values[a] # ""
                  /\ \E i \in 1..Len(rows) :
                        Trim(rows[i].VariantTitle) = values[a]
            /\ \A i \in 1..Len(rows) :
                  Trim(rows[i].VariantTitle) # "" =>
                      \E a \in 1..Len(values) :
                          values[a] = Trim(rows[i].VariantTitle)
            /\ \A a, b \in 1..Len(values) :
                  a < b => /\ values[a] # values[b]
                           /\ FirstRowWith(rows, values[a])
                                  < FirstRowWith(rows, values[b])
            /\ Len(variants) = Len(rows)
            /\ \A i \in 1..Len(rows) :
                  /\ variants[i].sku = Trim(rows[i].VariantSKU)
                  /\ variants[i].optionValue = Trim(rows[i].VariantTitle)

C22_Witness ==
    /\ request.op = "productSet"
    /\ request.key = 1
    /\ Trim(productsByHandle[1].rows[2].VariantTitle) = "Red"
    /\ request.input.productOptions = <<"Red", "Blue">>
    /\ Len(request.input.variants) = 3

(***************************************************************************)
(* C23: a call whose requests are all answered ends: it returns the body   *)
(* of a response or throws the transport failure it received.  The throw   *)
(* after the retry loop ("Unexpected state ...") is never reached.         *)
(***************************************************************************)
CallRunning == cpc \in {"inflight", "pacing", "backoff"}

C23_State ==
    /\ cpc = "returned" => /\ result.kind = "returned"
                           /\ lastReply.kind = "success"
                           /\ result.data = lastReply.data
    /\ cpc = "thrown" => /\ result.kind = "thrown"
                         /\ result.err # UnexpectedStateError
                         /\ lastReply.kind = "failure"
                         /\ result.err = lastReply.err
    /\ result.kind = "thrown" => result.err # UnexpectedStateError

C23_CallTerminates ==
    /\ []C23_State
    /\ CallRunning ~> (cpc \in {"returned", "thrown"})

C23_Witness ==
    /\ cpc = "returned"
    /\ requests = MAX_RETRIES + 1
    /\ result.kind = "returned"

(***************************************************************************)
(* C24: a lookup answered by a successful response that carries GraphQL    *)
(* errors returns at once (lines 99-102) and fetchProductByHandle reads    *)
(* data.productByHandle of that body as of any other (line 179).  When the *)
(* body carries no product the result is null and, in live mode, the       *)
(* upsert that follows carries no variant id; when the body carries a      *)
(* product next to the errors, that product is the existing one and the    *)
(* variants of its SKUs carry their ids.                                   *)
(***************************************************************************)
LookupReturnedErrors ==
    /\ opc = "lookup"
    /\ cpc = "returned"
    /\ HasGraphQLErrors(result.data)
    /\ ~dryRun

\* the statement without the condition on the data of the body
C24_ErrorsPass ==
    LookupReturnedErrors =>
        /\ opc' = "upsert"
        /\ request'.op = "productSet"
        /\ \A i \in 1..Len(request'.input.variants) :
              request'.input.variants[i].id = ""

C24_ErrorsMeanNotFound == [][C24_ErrorsPass]_vars

C24_Step ==
    /\ (opc = "lookup" /\ Receives("success")
            /\ HasGraphQLErrors(lastReply'.data)) =>
          /\ EndsCall("returned")
          /\ result'.data = lastReply'.data
    /\ LookupReturnedErrors =>
          LET found == result.data.product
              rows == productsByHandle[keyIdx].rows
          IN  /\ opc' = "upsert"
              /\ request'.op = "productSet"
              /\ request'.key = keyIdx
              /\ Len(request'.input.variants) = Len(rows)
              /\ found.isNull =>
                    \A i \in 1..Len(rows) :
                        request'.input.variants[i].id = ""
              /\ ~found.isNull =>
                    \A i \in 1..Len(rows) :
                        SkuPresent(found, Trim(rows[i].VariantSKU)) =>
                            request'.input.variants[i].id
                                \in VariantIds(found) \ {""}

C24_ErrorsWithoutProductCreate == [][C24_Step]_vars

C24_Witness ==
    /\ LookupReturnedErrors
    /\ result.data.product.isNull
    /\ lastReply.kind = "success"
    /\ keyIdx = 1

(***************************************************************************)
(* C25: within one call the pacing wait is entered only on a successful    *)
(* response without errors and is followed by the return of that response  *)
(* and nothing else, hence at most once per call.  A failed request leads  *)
(* to a backoff wait or to a throw, never to a pacing wait, and a backoff  *)
(* wait is followed by one more request of the same call.                  *)
(***************************************************************************)
C25_State ==
    /\ cpc = "pacing" => /\ lastReply.kind = "success"
                         /\ ~HasGraphQLErrors(lastReply.data)
                         /\ pending = lastReply.data
                         /\ waitMs > 0
    /\ cpc = "backoff" => lastReply.kind = "failure" /\ pending = NoData
    /\ cpc = "thrown" => pending = NoData

C25_Step ==
    /\ (cpc' = "pacing" /\ cpc # "pacing") => Receives("success")
    /\ cpc = "pacing" =>
          /\ cpc' = "returned"
          /\ result' = Returned(lastReply.data)
          /\ requests' = requests
          /\ calls' = calls
    /\ Receives("failure") => cpc' \in {"backoff", "thrown"}
    /\ cpc = "backoff" =>
          /\ cpc' = "inflight"
          /\ requests' = requests + 1
          /\ request' = request
          /\ calls' = calls

C25_PacingOnlyBeforeReturn == []C25_State /\ [][C25_Step]_vars

C25_Witness ==
    /\ cpc = "pacing"
    /\ requests = 3
    /\ backoffMs = 4000

====
